---------------------------- MODULE Spec2Model ----------------------------
(***************************************************************************)
(* Model of posthog/models/utils.py: the UUIDT identifier and its          *)
(* per-millisecond series counter, uuid7, and create_with_slug.            *)
(*                                                                         *)
(* Python integers are unbounded; the identifiers are 128 bits wide.  An   *)
(* integer is therefore held as a record [neg, bits]: for a non-negative   *)
(* integer `bits` is the set of positions of its 1 bits, for a negative    *)
(* one (two's complement with an infinite sign extension, which is how     *)
(* Python defines &, | and >> on negative integers) `bits` is the set of   *)
(* positions of its 0 bits.  -1 is [neg |-> TRUE, bits |-> {}].            *)
(***************************************************************************)
EXTENDS Integers, Sequences, FiniteSets, TLC

VARIABLES
    current_series_per_ms,  \* UUIDT.current_series_per_ms (see Dict below)
    minted,                 \* per timestamp: get_series calls completed for it
    sinceEvicted,           \* per timestamp: of those, the ones since its entry was last removed
    last,                   \* the last identifier minted and where it stands in its run
    lastId,                 \* per timestamp: the last identifier minted at it
    result,                 \* how the last UUIDT construction ended
    ops,                    \* operations run so far
    pc,                     \* per thread: the line of get_series it is about to run
    local,                  \* per thread: unix_time_ms, series and the value loaded by += and %=
    returned,               \* per thread: the (unix_time_ms, series) pairs get_series returned to it
    store,                  \* the rows of the table create_func writes to
    call,                   \* per caller of create_with_slug: where its call stands
    u7,                     \* the last uuid7 call: its arguments and what it returned
    itb,                    \* the int_to_base call under way: its arguments, locals and outcome
    mk                      \* the last mask_key_value call: its argument and what it returned

uuidtVars == <<current_series_per_ms, minted, sinceEvicted, last, lastId, result>>

raceVars == <<pc, local, returned>>

\* what the threads of SpecRace leave alone
seqVars == <<minted, sinceEvicted, last, lastId, result, ops, store, call, u7, itb, mk>>

slugVars == <<store, call>>

vars == <<current_series_per_ms, minted, sinceEvicted, last, lastId, result, ops,
          pc, local, returned, store, call, u7, itb, mk>>

-----------------------------------------------------------------------------
(* Unbounded integers as bit sets *)

Nat2(k) == [neg |-> FALSE, bits |-> k]

IsNonNeg(x) == ~x.neg

\* x & m, for a non-negative mask m: the result is non-negative
BitAnd(x, m) ==
    [neg |-> FALSE,
     bits |-> IF x.neg THEN m.bits \ x.bits ELSE m.bits \cap x.bits]

\* x >> k, Python's arithmetic (floor) shift
ShiftRight(x, k) ==
    [neg |-> x.neg, bits |-> {i - k : i \in {j \in x.bits : j >= k}}]

\* x << k, for a non-negative x
ShiftLeft(x, k) ==
    [neg |-> FALSE, bits |-> {i + k : i \in x.bits}]

\* x | y, for non-negative x and y
BitOr(x, y) ==
    [neg |-> FALSE, bits |-> x.bits \cup y.bits]

\* the integer literal whose binary form is n ones: 0x0FFF is LowMask(12)
LowMask(n) == Nat2(0 .. n - 1)

\* a small natural number as an integer of this representation
RECURSIVE BitsOfNat(_, _)
BitsOfNat(n, pos) ==
    IF n = 0 THEN {}
    ELSE (IF n % 2 = 1 THEN {pos} ELSE {}) \cup BitsOfNat(n \div 2, pos + 1)

FromNat(n) == Nat2(BitsOfNat(n, 0))

\* bits hi..lo of a non-negative integer, as a small natural number
RECURSIVE Field(_, _, _)
Field(x, hi, lo) ==
    IF hi < lo THEN 0
    ELSE 2 * Field(x, hi, lo + 1) + (IF lo \in x.bits THEN 1 ELSE 0)

-----------------------------------------------------------------------------
(* str *)

\* strings are sequences of characters
Repeat(ch, n) == [i \in 1 .. n |-> ch]

\* value[:n], for n >= 0
Take(value, n) == SubSeq(value, 1, IF Len(value) < n THEN Len(value) ELSE n)

\* value[n:], for n >= 0
Drop(value, n) == SubSeq(value, n + 1, Len(value))

StartsWith(value, old) == Len(value) >= Len(old) /\ Take(value, Len(old)) = old

\* value.replace(old, ""): every occurrence of old, found from the left
RECURSIVE Remove(_, _)
Remove(value, old) ==
    IF Len(value) = 0 THEN value
    ELSE IF StartsWith(value, old) THEN Remove(Drop(value, Len(old)), old)
    ELSE <<Head(value)>> \o Remove(Tail(value), old)

\* value.strip(chars): the characters of `chars` are taken off both ends
RECURSIVE LStrip(_, _)
LStrip(value, chars) ==
    IF Len(value) > 0 /\ Head(value) \in chars THEN LStrip(Tail(value), chars)
    ELSE value

RECURSIVE RStrip(_, _)
RStrip(value, chars) ==
    IF Len(value) > 0 /\ value[Len(value)] \in chars
    THEN RStrip(SubSeq(value, 1, Len(value) - 1), chars)
    ELSE value

Strip(value, chars) == RStrip(LStrip(value, chars), chars)

HexDigits == <<"0", "1", "2", "3", "4", "5", "6", "7", "8", "9",
               "a", "b", "c", "d", "e", "f">>

UpperHexDigits == <<"0", "1", "2", "3", "4", "5", "6", "7", "8", "9",
                    "A", "B", "C", "D", "E", "F">>

\* the value of one hexadecimal digit, -1 for any other character
HexValue(ch) ==
    IF \E i \in 1 .. 16 : HexDigits[i] = ch
    THEN (CHOOSE i \in 1 .. 16 : HexDigits[i] = ch) - 1
    ELSE IF \E i \in 1 .. 16 : UpperHexDigits[i] = ch
    THEN (CHOOSE i \in 1 .. 16 : UpperHexDigits[i] = ch) - 1
    ELSE -1

\* int(hex, 16) for a string of hexadecimal digits; ValueError for a string
\* with another character in it or with none at all
IntHex(hex) ==
    IF Len(hex) = 0 \/ \E i \in 1 .. Len(hex) : HexValue(hex[i]) < 0
    THEN [ok |-> FALSE, int |-> Nat2({})]
    ELSE [ok |-> TRUE,
          int |-> Nat2(UNION {BitsOfNat(HexValue(hex[i]), 4 * (Len(hex) - i)) :
                                  i \in 1 .. Len(hex)})]

-----------------------------------------------------------------------------
(* bytes *)

\* int.to_bytes(length, "big", signed=False): OverflowError for a negative
\* integer and for one that needs more than `length` bytes
ToBytes(x, length) ==
    IF x.neg \/ \E i \in x.bits : i >= 8 * length
    THEN [ok |-> FALSE, bytes |-> <<>>]
    ELSE [ok |-> TRUE,
          bytes |-> [j \in 1 .. length |->
                        Field(x, 8 * (length - j) + 7, 8 * (length - j))]]

\* uuid.UUID(bytes=b): int.from_bytes(b, byteorder="big")
FromBytes(b) ==
    Nat2(UNION {{8 * (Len(b) - j) + k : k \in BitsOfNat(b[j], 0)} : j \in 1 .. Len(b)})

-----------------------------------------------------------------------------
(* UUIDT.current_series_per_ms                                              *)
(*                                                                         *)
(* The dict is held as [named, others]: `named` is the dict restricted to  *)
(* the timestamps the model names, and `others` counts the tracked         *)
(* timestamps that were minted once, by the clock, and never come back     *)
(* (each of them holds 1).  During a call for such a timestamp its entry   *)
(* is the key NowKey, folded into `others` when the call returns.          *)

SERIES_MODULUS == 65536

MAX_TRACKED == 10000

EmptyMap == [t \in {} |-> 0]

EmptyDict == [named |-> EmptyMap, others |-> 0]

NowKey == [neg |-> FALSE, bits |-> {-1}]

DictLen(d) == Cardinality(DOMAIN d.named) + d.others

\* defaultdict(int).__getitem__: a missing key is inserted with int() = 0
DictRead(d, key) ==
    IF key \in DOMAIN d.named THEN d
    ELSE [d EXCEPT !.named = (key :> 0) @@ d.named]

DictStore(d, key, value) ==
    [d EXCEPT !.named = (key :> value) @@ d.named]

DictClear(d) == EmptyDict

Fold(d) ==
    IF NowKey \in DOMAIN d.named
    THEN [named |-> [t \in DOMAIN d.named \ {NowKey} |-> d.named[t]],
          others |-> d.others + 1]
    ELSE d

\* line 82
Line82(d, unix_time_ms) == DictRead(d, unix_time_ms)

\* lines 83-85 without the clear of line 84
Line83KeepsOthers(d, unix_time_ms, series) ==
    IF DictLen(d) > MAX_TRACKED
    THEN DictStore(d, unix_time_ms, series)
    ELSE d

\* lines 83-85
Line83(d, unix_time_ms, series) ==
    IF DictLen(d) > MAX_TRACKED
    THEN DictStore(DictClear(d), unix_time_ms, series)
    ELSE d

\* line 86
Line86(d, unix_time_ms) ==
    LET d1 == DictRead(d, unix_time_ms)
    IN  DictStore(d1, unix_time_ms, d1.named[unix_time_ms] + 1)

\* line 87 with the modulus one too small
Line87OffByOne(d, unix_time_ms) ==
    LET d1 == DictRead(d, unix_time_ms)
    IN  DictStore(d1, unix_time_ms, d1.named[unix_time_ms] % (SERIES_MODULUS - 1))

\* line 87
Line87(d, unix_time_ms) ==
    LET d1 == DictRead(d, unix_time_ms)
    IN  DictStore(d1, unix_time_ms, d1.named[unix_time_ms] % SERIES_MODULUS)

\* get_series without line 87
get_seriesUnbounded(d, unix_time_ms) ==
    LET d82 == Line82(d, unix_time_ms)
        series == d82.named[unix_time_ms]
        d85 == Line83(d82, unix_time_ms, series)
        d86 == Line86(d85, unix_time_ms)
    IN  [series |-> series, dict |-> d86]

\* get_series returning the stored next value instead of the one it read
get_seriesReturnsStored(d, unix_time_ms) ==
    LET d82 == Line82(d, unix_time_ms)
        series == d82.named[unix_time_ms]
        d85 == Line83(d82, unix_time_ms, series)
        d86 == Line86(d85, unix_time_ms)
        d87 == Line87(d86, unix_time_ms)
    IN  [series |-> d87.named[unix_time_ms], dict |-> d87]

\* UUIDT.get_series run by one caller with nothing in between
get_series(d, unix_time_ms) ==
    LET d82 == Line82(d, unix_time_ms)
        series == d82.named[unix_time_ms]
        d85 == Line83(d82, unix_time_ms, series)
        d86 == Line86(d85, unix_time_ms)
        d87 == Line87(d86, unix_time_ms)
    IN  [series |-> series, dict |-> d87]

-----------------------------------------------------------------------------
(* UUIDT.__init__, the minting path (lines 67-77) *)

NoId == [neg |-> TRUE, bits |-> {}]

\* __init__ putting the series in front of the time
UUIDT_initSeriesFirst(d, unix_time_ms, random_component) ==
    LET time_component == ToBytes(unix_time_ms, 6)
    IN  IF ~time_component.ok
        THEN [ok |-> FALSE, error |-> "OverflowError", dict |-> d,
              series |-> -1, uuid |-> NoId]
        ELSE
        LET gs == get_series(d, unix_time_ms)
            series_component == ToBytes(FromNat(gs.series), 2)
            input_bytes == series_component.bytes \o time_component.bytes
                               \o random_component
        IN  [ok |-> TRUE, error |-> "", dict |-> gs.dict,
             series |-> gs.series, uuid |-> FromBytes(input_bytes)]

\* __init__ with line 70 in front of line 69
UUIDT_initSeriesBeforeTime(d, unix_time_ms, random_component) ==
    LET gs == get_series(d, unix_time_ms)
        time_component == ToBytes(unix_time_ms, 6)
        series_component == ToBytes(FromNat(gs.series), 2)
    IN  IF ~time_component.ok \/ ~series_component.ok
        THEN [ok |-> FALSE, error |-> "OverflowError", dict |-> gs.dict,
              series |-> gs.series, uuid |-> NoId]
        ELSE [ok |-> TRUE, error |-> "", dict |-> gs.dict, series |-> gs.series,
              uuid |-> FromBytes(time_component.bytes \o series_component.bytes
                                     \o random_component)]

UUIDT_init(d, unix_time_ms, random_component) ==
    LET time_component == ToBytes(unix_time_ms, 6)
    IN  IF ~time_component.ok
        THEN [ok |-> FALSE, error |-> "OverflowError", dict |-> d,
              series |-> -1, uuid |-> NoId]
        ELSE
        LET gs == get_series(d, unix_time_ms)
            series_component == ToBytes(FromNat(gs.series), 2)
        IN  IF ~series_component.ok
            THEN [ok |-> FALSE, error |-> "OverflowError", dict |-> gs.dict,
                  series |-> gs.series, uuid |-> NoId]
            ELSE
            LET input_bytes == time_component.bytes \o series_component.bytes
                                   \o random_component
            IN  IF Len(input_bytes) # 16
                THEN [ok |-> FALSE, error |-> "AssertionError", dict |-> gs.dict,
                      series |-> gs.series, uuid |-> NoId]
                ELSE [ok |-> TRUE, error |-> "", dict |-> gs.dict,
                      series |-> gs.series, uuid |-> FromBytes(input_bytes)]

-----------------------------------------------------------------------------
(* UUIDT.__init__, the whole of it (lines 56-77) *)

\* the normal form lines 93-94 and uuid.UUID bring a string to
Normalise(candidate) ==
    Remove(Strip(Remove(Remove(candidate, <<"u", "r", "n", ":">>),
                        <<"u", "u", "i", "d", ":">>),
                 {"{", "}"}),
           <<"-">>)

\* UUIDT.is_valid_uuid for a str: what it returns, or the error int() raises
is_valid_uuid(candidate) ==
    LET hex == Normalise(candidate)
    IN  IF Len(hex) # 32 THEN [raised |-> "", valid |-> FALSE]
        ELSE LET v == IntHex(hex)
             IN  IF ~v.ok THEN [raised |-> "ValueError", valid |-> FALSE]
                 ELSE [raised |-> "", valid |-> \A i \in v.int.bits : i < 128]

\* line 64, uuid.UUID(uuid_str)
UUIDFromStr(uuid_str) ==
    LET hex == Normalise(uuid_str)
    IN  IF Len(hex) # 32 THEN [ok |-> FALSE, int |-> Nat2({})] ELSE IntHex(hex)

\* no uuid_str passed (None)
NoStr == [text |-> <<>>, value |-> NoId]

Failed(d, error) ==
    [ok |-> FALSE, error |-> error, dict |-> d, series |-> -1, uuid |-> NoId,
     parsed |-> FALSE, drew |-> FALSE]

\* lines 67-77 reached from line 63
Generated(d, unix_time_ms, random_component) ==
    LET r == UUIDT_init(d, unix_time_ms, random_component)
    IN  [ok |-> r.ok, error |-> r.error, dict |-> r.dict, series |-> r.series,
         uuid |-> r.uuid, parsed |-> FALSE,
         drew |-> r.ok \/ r.error = "AssertionError"]

\* __init__ without the return of line 65
UUIDT_newMintsAnyway(d, unix_time_ms, uuid_str, random_component) ==
    IF Len(uuid_str) = 0 THEN Generated(d, unix_time_ms, random_component)
    ELSE LET v == is_valid_uuid(uuid_str)
         IN  IF v.raised # "" THEN Failed(d, v.raised)
             ELSE Generated(d, unix_time_ms, random_component)

\* UUIDT(unix_time_ms, uuid_str, seeded_random=...); unix_time_ms is the
\* argument or, for None, the clock's reading
UUIDT_new(d, unix_time_ms, uuid_str, random_component) ==
    IF Len(uuid_str) = 0 THEN Generated(d, unix_time_ms, random_component)
    ELSE LET v == is_valid_uuid(uuid_str)
         IN  IF v.raised # "" THEN Failed(d, v.raised)
             ELSE IF v.valid
             THEN LET u == UUIDFromStr(uuid_str)
                  IN  IF ~u.ok THEN Failed(d, "ValueError")
                      ELSE [ok |-> TRUE, error |-> "", dict |-> d, series |-> -1,
                            uuid |-> u.int, parsed |-> TRUE, drew |-> FALSE]
             ELSE Generated(d, unix_time_ms, random_component)

-----------------------------------------------------------------------------
(* The timestamps and random tails the model mints with *)

\* 1700000000000
T_SCENARIO == Nat2({11, 13, 14, 16, 18, 21, 22, 23, 24, 25, 26, 27, 30, 31, 32,
                    33, 35, 39, 40})

\* 1700000000001
T_NEXT == Nat2(T_SCENARIO.bits \cup {0})

\* -1 and 2^48: neither fits an unsigned 48-bit integer
T_NEGATIVE == [neg |-> TRUE, bits |-> {}]

T_WIDE == Nat2({48})

ValidTimestamps == {T_SCENARIO, T_NEXT}

InvalidTimestamps == {T_NEGATIVE, T_WIDE}

ZeroTail == [j \in 1 .. 8 |-> 0]

OnesTail == [j \in 1 .. 8 |-> 255]

Tails == {ZeroTail, OnesTail}

\* a < b for non-negative integers: the highest bit they differ in is b's
Less(a, b) ==
    \E i \in b.bits \ a.bits : \A j \in a.bits \ b.bits : j < i

-----------------------------------------------------------------------------
(* UUIDT(unix_time_ms, seeded_random=...) *)

NoLast == [ts |-> NoId, series |-> -1, uuid |-> NoId, k |-> 0, fromAbsent |-> FALSE]

NoResult ==
    [called |-> FALSE, ok |-> TRUE, error |-> "", ts |-> NoId, uuid_str |-> NoStr,
     before |-> EmptyDict, series |-> -1, uuid |-> NoId, parsed |-> FALSE,
     drew |-> FALSE]

ConstructFrom(unix_time_ms, uuid_str, random_component) ==
    \E r \in {UUIDT_new(current_series_per_ms, unix_time_ms, uuid_str.text,
                        random_component)} :
    LET d == current_series_per_ms
        named == unix_time_ms \in ValidTimestamps
        continues == last.ts = unix_time_ms /\ last.k > 0
    IN  /\ current_series_per_ms' = Fold(r.dict)
        /\ result' = [called |-> TRUE, ok |-> r.ok, error |-> r.error,
                       ts |-> unix_time_ms, uuid_str |-> uuid_str, before |-> d,
                       series |-> r.series, uuid |-> r.uuid, parsed |-> r.parsed,
                       drew |-> r.drew]
        /\ IF r.ok /\ ~r.parsed
           THEN /\ minted' = [u \in ValidTimestamps |->
                                IF u = unix_time_ms THEN minted[u] + 1 ELSE minted[u]]
                /\ sinceEvicted' = [u \in ValidTimestamps |->
                                      IF u = unix_time_ms THEN sinceEvicted[u] + 1
                                      ELSE IF u \in DOMAIN r.dict.named THEN sinceEvicted[u]
                                      ELSE 0]
                /\ last' = [ts |-> unix_time_ms,
                            series |-> r.series,
                            uuid |-> IF named THEN r.uuid ELSE NoId,
                            k |-> IF ~named THEN 0
                                  ELSE IF continues THEN last.k + 1 ELSE 1,
                            fromAbsent |-> IF continues THEN last.fromAbsent
                                           ELSE unix_time_ms \notin DOMAIN d.named]
                /\ lastId' = [u \in ValidTimestamps |->
                                IF u = unix_time_ms THEN r.uuid ELSE lastId[u]]
           ELSE UNCHANGED <<minted, sinceEvicted, last, lastId>>

Construct(unix_time_ms, random_component) ==
    ConstructFrom(unix_time_ms, NoStr, random_component)

\* The identifier UUIDT puts together from a timestamp, a series value and a tail
Assemble(unix_time_ms, series, random_component) ==
    FromBytes(ToBytes(unix_time_ms, 6).bytes \o ToBytes(FromNat(series), 2).bytes
                  \o random_component)

\* line 54: the class attribute starts as an empty defaultdict
InitUUIDT ==
    /\ current_series_per_ms = EmptyDict
    /\ minted = [u \in ValidTimestamps |-> 0]
    /\ sinceEvicted = [u \in ValidTimestamps |-> 0]
    /\ last = NoLast
    /\ lastId = [u \in ValidTimestamps |-> NoId]
    /\ result = NoResult

(***************************************************************************)
(* The state of a process that started with the empty dict, constructed    *)
(* UUIDT(t) n times and then UUIDT() at m new milliseconds, with at most   *)
(* MAX_TRACKED timestamps tracked in all (so nothing was evicted yet).     *)
(* Each such state is the successor under Construct of the one with n - 1  *)
(* or m - 1, so every one of them is reachable from InitUUIDT.  The        *)
(* specifications start from a few of them, next to InitUUIDT itself,      *)
(* because the two walks that lead to the wrap of the series and to the    *)
(* eviction are 65536 and 10000 constructions long.                        *)
(***************************************************************************)
AfterWarmUp(t, n, m) ==
    /\ current_series_per_ms =
           [named |-> IF n > 0 THEN (t :> (n % SERIES_MODULUS)) ELSE EmptyMap,
            others |-> m]
    /\ minted = [u \in ValidTimestamps |-> IF u = t THEN n ELSE 0]
    /\ sinceEvicted = [u \in ValidTimestamps |-> IF u = t THEN n ELSE 0]
    /\ last = IF m > 0
              THEN [ts |-> NowKey, series |-> 0, uuid |-> NoId, k |-> 0,
                    fromAbsent |-> TRUE]
              ELSE IF n > 0
              THEN [ts |-> t, series |-> (n - 1) % SERIES_MODULUS,
                    uuid |-> Assemble(t, (n - 1) % SERIES_MODULUS, ZeroTail),
                    k |-> n, fromAbsent |-> TRUE]
              ELSE NoLast
    /\ lastId = [u \in ValidTimestamps |->
                    IF u = t /\ n > 0
                    THEN Assemble(t, (n - 1) % SERIES_MODULUS, ZeroTail)
                    ELSE NoId]
    /\ result = NoResult

\* uuid7 not called yet
NoU7 ==
    [called |-> FALSE, unix_ms_time |-> [kind |-> "none", value |-> Nat2({})],
     random |-> [kind |-> "none", value |-> Nat2({}), a |-> Nat2({}), b |-> Nat2({})],
     uuid |-> [ok |-> FALSE, int |-> Nat2({})]]

\* int_to_base not called yet
NoItb ==
    [pc |-> "idle", number |-> 0, base |-> 0, alphabet |-> <<>>, value |-> <<>>,
     negated |-> FALSE, n |-> 0, raised |-> "", returns |-> <<>>]

\* mask_key_value not called yet
NoMk == [called |-> FALSE, value |-> <<>>, masked |-> <<>>]

-----------------------------------------------------------------------------
(* Threads inside get_series: their idle state *)

NThreads == 2

MaxCalls == 2

Threads == 1 .. NThreads

NoLocal == [unix_time_ms |-> NoId, series |-> 0, loaded |-> 0]

RaceIdle ==
    /\ pc = [p \in Threads |-> "idle"]
    /\ local = [p \in Threads |-> NoLocal]
    /\ returned = [p \in Threads |-> <<>>]

-----------------------------------------------------------------------------
(* create_with_slug *)

\* posthog.constants.MAX_SLUG_LENGTH, imported at line 19
MAX_SLUG_LENGTH == 48

\* range(10), line 272
MAX_ATTEMPTS == 10

Lower(ch) ==
    CASE ch = "A" -> "a"
      [] ch = "B" -> "b"
      [] OTHER -> ch

WordChars == {"a", "b", "c", "d", "A", "B", "_", "0", "1"}

Separators == {" ", "-"}

RECURSIVE Collapse(_, _)
Collapse(value, acc) ==
    IF value = <<>> THEN acc
    ELSE IF Head(value) \in Separators
         THEN IF acc # <<>> /\ acc[Len(acc)] = "-"
              THEN Collapse(Tail(value), acc)
              ELSE Collapse(Tail(value), Append(acc, "-"))
         ELSE Collapse(Tail(value), Append(acc, Head(value)))

RECURSIVE StripLeft(_)
StripLeft(value) ==
    IF value # <<>> /\ Head(value) \in {"-", "_"} THEN StripLeft(Tail(value))
    ELSE value

RECURSIVE StripRight(_)
StripRight(value) ==
    IF value # <<>> /\ value[Len(value)] \in {"-", "_"}
    THEN StripRight(SubSeq(value, 1, Len(value) - 1))
    ELSE value

\* django.utils.text.slugify on ASCII input: lower-case, drop what is neither a
\* word character, white space nor a hyphen, turn each run of white space and
\* hyphens into one hyphen, strip leading and trailing hyphens and underscores
slugify(value) ==
    LET lowered == [i \in 1 .. Len(value) |-> Lower(value[i])]
        kept == SelectSeq(lowered, LAMBDA ch : ch \in WordChars \cup Separators)
    IN  StripRight(StripLeft(Collapse(kept, <<>>)))

\* the inputs of the model's callers: a name keyword, or none and a default_slug
NoName == <<"<", "n", "o", "n", "e", ">">>

SlugInputs ==
    {[name |-> <<"A", "b", " ", " ", "c", "!">>, default_slug |-> <<>>],
     [name |-> <<"-", "A", "b", "-", "c", "_">>, default_slug |-> <<>>],
     [name |-> Repeat("a", MAX_SLUG_LENGTH + 12), default_slug |-> <<>>],
     [name |-> <<"!", "!">>, default_slug |-> <<"d">>],
     [name |-> NoName, default_slug |-> <<>>],
     [name |-> NoName, default_slug |-> Repeat("d", MAX_SLUG_LENGTH + 1)]}

\* generate_random_short_suffix (lines 264-266): four draws from
\* string.ascii_letters; the model draws from these
Suffixes == {<<"a", "a", "a", "a">>, <<"Z", "q", "x", "B">>}

\* line 271
SlugifiedName(input) ==
    IF input.name # NoName THEN Take(slugify(input.name), MAX_SLUG_LENGTH)
    ELSE input.default_slug

\* lines 274-277: kwargs["slug"] of attempt retry_i
CandidateSlug(slugified_name, retry_i, suffix) ==
    IF retry_i = 0 THEN slugified_name
    ELSE Take(slugified_name, MAX_SLUG_LENGTH - 5) \o <<"-">> \o suffix

(***************************************************************************)
(* create_func, the persistence collaborator: it writes the row, and the   *)
(* table's unique constraint on slug answers a duplicate with an           *)
(* IntegrityError ("unique"); it may also fail on another constraint       *)
(* (IntegrityError too, "constraint") or lose its connection               *)
(* (OperationalError, "connection").  `written` is the table as the        *)
(* statement left it inside the transaction.                               *)
(***************************************************************************)
SlugsOf(rows) == {r.slug : r \in rows}

create_func(rows, row, fault) ==
    CASE fault = "connection" ->
            [raised |-> "OperationalError", cause |-> "connection", written |-> rows]
      [] fault = "constraint" ->
            [raised |-> "IntegrityError", cause |-> "constraint", written |-> rows]
      [] row.slug \in SlugsOf(rows) ->
            [raised |-> "IntegrityError", cause |-> "unique",
             written |-> rows \cup {row}]
      [] OTHER ->
            [raised |-> "", cause |-> "", written |-> rows \cup {row}]

\* an atomic block that commits whatever its body wrote
AtomicNoRollback(rows, outcome) == outcome.written

\* line 279, with transaction.atomic(): commit on return, roll back on an exception
Atomic(rows, outcome) ==
    IF outcome.raised = "" THEN outcome.written ELSE rows

\* a loop that goes on after the last attempt of range(10)
HandlerOneMore(raised, retry_i) ==
    IF raised = "" THEN "return"
    ELSE IF raised = "IntegrityError"
         THEN IF retry_i + 1 < MAX_ATTEMPTS + 1 THEN "continue" ELSE "exhausted"
    ELSE "propagate"

\* lines 278-283: what the loop does with the outcome of attempt retry_i
Handler(raised, retry_i) ==
    IF raised = "" THEN "return"
    ELSE IF raised = "IntegrityError"
         THEN IF retry_i + 1 < MAX_ATTEMPTS THEN "continue" ELSE "exhausted"
    ELSE "propagate"

NCallers == 2

Callers == 1 .. NCallers

Faults == {"none", "constraint", "connection"}

\* SpecSlugShared leaves the other constraints of the table out
SharedFaults == {"none", "connection"}

NoCall ==
    [status |-> "idle", input |-> [name |-> NoName, default_slug |-> <<>>],
     slugified_name |-> <<>>, retry_i |-> 0, slug |-> <<>>, suffix |-> <<>>,
     calls |-> 0, error |-> "", onlyUnique |-> TRUE, otherAt |-> -1,
     otherRaised |-> ""]

SlugIdle ==
    /\ store = {}
    /\ call = [c \in Callers |-> NoCall]

\* create_with_slug(create_func, default_slug, name=...) is called: line 271
Start(c) ==
    /\ call[c].status = "idle"
    /\ \E input \in SlugInputs :
           call' = [call EXCEPT ![c] =
                       [NoCall EXCEPT !.status = "running", !.input = input,
                                      !.slugified_name = SlugifiedName(input)]]
    /\ UNCHANGED <<store, uuidtVars, ops, raceVars, u7, itb, mk>>

\* one turn of the loop, lines 272-282, and line 283 after the last one
Attempt(c, faults) ==
    /\ call[c].status = "running"
    /\ \E suffix \in Suffixes, fault \in faults :
        LET me == call[c]
            slug == CandidateSlug(me.slugified_name, me.retry_i, suffix)
            row == [slug |-> slug, by |-> c]
        IN  \E outcome \in {create_func(store, row, fault)} :
            \E then \in {Handler(outcome.raised, me.retry_i)} :
              /\ store' = Atomic(store, outcome)
              /\ call' = [call EXCEPT ![c] =
                   [me EXCEPT
                      !.slug = slug,
                      !.suffix = IF me.retry_i = 0 THEN <<>> ELSE suffix,
                      !.calls = me.calls + 1,
                      !.retry_i = IF then = "continue" THEN me.retry_i + 1 ELSE me.retry_i,
                      !.status = CASE then = "return" -> "returned"
                                   [] then = "continue" -> "running"
                                   [] OTHER -> "raised",
                      !.error = CASE then = "exhausted" -> "Exception"
                                  [] then = "propagate" -> outcome.raised
                                  [] OTHER -> "",
                      !.onlyUnique = me.onlyUnique /\ outcome.cause = "unique",
                      !.otherAt = IF me.otherAt = -1 /\ outcome.cause \in {"constraint", "connection"}
                                  THEN me.retry_i ELSE me.otherAt,
                      !.otherRaised = IF me.otherAt = -1 /\ outcome.cause \in {"constraint", "connection"}
                                      THEN outcome.raised ELSE me.otherRaised]]
    /\ UNCHANGED <<uuidtVars, ops, raceVars, u7, itb, mk>>

\* rows other requests created before: every candidate of one base slug is taken
TakenRows ==
    LET base == SlugifiedName([name |-> <<"A", "b", " ", " ", "c", "!">>,
                               default_slug |-> <<>>])
    IN  {[slug |-> CandidateSlug(base, i, suffix), by |-> 0] :
            i \in {0, 1}, suffix \in Suffixes}

InitSlug ==
    /\ ops = 0
    /\ InitUUIDT
    /\ RaceIdle
    /\ store \in {{}, TakenRows}
    /\ call = [c \in Callers |-> NoCall]
    /\ u7 = NoU7
    /\ itb = NoItb
    /\ mk = NoMk

\* SpecSlug: one caller, and a create_func that may fail in every way
SoloStart == Start(1)

SoloAttempt == Attempt(1, Faults)

NextSlug == SoloStart \/ SoloAttempt

SpecSlug == InitSlug /\ [][NextSlug]_vars

\* SpecSlugShared: several callers against one table
SharedStart == \E c \in Callers : Start(c)

SharedAttempt == \E c \in Callers : Attempt(c, SharedFaults)

NextSlugShared == SharedStart \/ SharedAttempt

SpecSlugShared == InitSlug /\ [][NextSlugShared]_vars

\* the attempt a caller made last: its index is calls - 1
Attempted(c) == call[c].calls > 0

Letters == {"a", "b", "q", "x", "B", "Z"}

\* C5: every candidate handed to create_func is at most MAX_SLUG_LENGTH long;
\* attempt 0 hands over the base slug and every later attempt
\* <base cut to MAX_SLUG_LENGTH - 5>-<4 letters>.
C5_CandidateWithinMaxLength ==
    \A c \in Callers :
        Attempted(c) =>
            /\ Len(call[c].slug) <= MAX_SLUG_LENGTH
            /\ IF call[c].calls = 1
               THEN call[c].slug = call[c].slugified_name
               ELSE /\ Len(call[c].suffix) = 4
                    /\ \A i \in 1 .. 4 : call[c].suffix[i] \in Letters
                    /\ call[c].slug =
                           Take(call[c].slugified_name, MAX_SLUG_LENGTH - 5)
                               \o <<"-">> \o call[c].suffix

\* C6: a call whose every attempt met a uniqueness conflict makes exactly 10
\* attempts and then fails with the exhausted-retries error; no call makes an
\* 11th attempt, and none ends with the conflict itself.
C6_ExhaustsAfterTenConflicts ==
    \A c \in Callers :
        /\ call[c].calls <= MAX_ATTEMPTS
        /\ (call[c].onlyUnique /\ call[c].calls = MAX_ATTEMPTS)
               => (call[c].status = "raised" /\ call[c].error = "Exception")
        /\ (call[c].onlyUnique /\ Attempted(c) /\ call[c].calls < MAX_ATTEMPTS)
               => call[c].status = "running"
        /\ (call[c].status = "raised" /\ call[c].error = "Exception")
               => call[c].calls = MAX_ATTEMPTS
        /\ (call[c].status = "raised" /\ call[c].onlyUnique)
               => call[c].error # "IntegrityError"

\* C6's case: ten conflicts in a row, the last one turned into the error
C6_Witness ==
    \E c \in Callers :
        /\ call[c].onlyUnique
        /\ call[c].calls = MAX_ATTEMPTS
        /\ call[c].status = "raised"
        /\ call[c].error = "Exception"

\* C7: a failure of create_func that is no uniqueness conflict ends the call
\* at once with that failure: no attempt follows it.
C7_OtherFailurePropagates ==
    \A c \in Callers :
        call[c].otherAt >= 0 =>
            /\ call[c].status = "raised"
            /\ call[c].error = call[c].otherRaised
            /\ call[c].calls = call[c].otherAt + 1

-----------------------------------------------------------------------------
(* Spec: one process constructing UUIDT identifiers one after the other *)

\* constructions followed after the warm-up
MaxOps == 4

\* how far from the empty dict, from the wrap of the series and from the
\* eviction threshold the warm-ups are taken
MaxStart == 1

StartMints == (0 .. MaxStart) \cup (SERIES_MODULUS - MaxStart .. SERIES_MODULUS)

StartOthers == (0 .. MaxStart) \cup (MAX_TRACKED - MaxStart .. MAX_TRACKED)

\* UUIDT(1700000000000) and UUIDT(1700000000001)
Mint ==
    /\ ops < MaxOps
    /\ ops' = ops + 1
    /\ \E t \in ValidTimestamps, random_component \in Tails :
           Construct(t, random_component)
    /\ UNCHANGED <<raceVars, slugVars, u7, itb, mk>>

\* UUIDT(): the clock has moved on to a millisecond not seen before
MintNow ==
    /\ ops < MaxOps
    /\ ops' = ops + 1
    /\ Construct(NowKey, ZeroTail)
    /\ UNCHANGED <<raceVars, slugVars, u7, itb, mk>>

\* UUIDT(-1), UUIDT(2 ** 48)
MintInvalid ==
    /\ ops < MaxOps
    /\ ops' = ops + 1
    /\ \E t \in InvalidTimestamps : Construct(t, ZeroTail)
    /\ UNCHANGED <<raceVars, slugVars, u7, itb, mk>>

Init ==
    /\ ops = 0
    /\ \E n \in StartMints, m \in StartOthers :
           /\ (IF n > 0 THEN 1 ELSE 0) + m <= MAX_TRACKED
           /\ AfterWarmUp(T_SCENARIO, n, m)
    /\ RaceIdle
    /\ SlugIdle
    /\ u7 = NoU7
    /\ itb = NoItb
    /\ mk = NoMk

Next == Mint \/ MintNow \/ MintInvalid

Spec == Init /\ [][Next]_vars

-----------------------------------------------------------------------------
(* Claims about the dict of one process *)

\* the last construction ran get_series
RanGetSeries == result.called /\ ~result.parsed /\ result.series >= 0

\* the timestamp of the last construction had an entry before it
WasTracked == result.ts \in DOMAIN result.before.named

\* the last get_series call brought the dict to more than 10,000 entries
Evicting ==
    /\ RanGetSeries
    /\ DictLen(result.before) + (IF WasTracked THEN 0 ELSE 1) > MAX_TRACKED

\* C16: a get_series call for t that makes the dict exceed 10,000 entries
\* returns the value t had (0 if it had none) and leaves the dict holding
\* only t, at that value plus 1 modulo 65536.
C16_EvictionKeepsCurrent ==
    Evicting =>
        /\ result.series = (IF WasTracked THEN result.before.named[result.ts] ELSE 0)
        /\ current_series_per_ms =
               Fold([named |-> (result.ts :> ((result.series + 1) % SERIES_MODULUS)),
                     others |-> 0])

\* C16's case: the dict held T_NEXT at 1 and 9,999 clock milliseconds, and
\* T_SCENARIO came as the 10,001st timestamp
C16_Witness ==
    /\ Evicting
    /\ result.ts = T_SCENARIO
    /\ T_NEXT \in DOMAIN result.before.named
    /\ result.before.others = MAX_TRACKED - 1
    /\ DOMAIN current_series_per_ms.named = {T_SCENARIO}

\* C17: after any completed calls the dict tracks at most 10,000 timestamps
\* and every stored and every returned series value is in 0..65535.
C17_Bounded ==
    /\ DictLen(current_series_per_ms) <= MAX_TRACKED
    /\ \A t \in DOMAIN current_series_per_ms.named :
           current_series_per_ms.named[t] \in 0 .. SERIES_MODULUS - 1
    /\ RanGetSeries => result.series \in 0 .. SERIES_MODULUS - 1

\* C17's case: a full dict after the call that returned 65535
C17_Witness ==
    /\ RanGetSeries
    /\ result.series = SERIES_MODULUS - 1
    /\ DictLen(current_series_per_ms) = MAX_TRACKED
    /\ current_series_per_ms.named[result.ts] = 0

\* C18: constructing a UUIDT with a timestamp that does not fit 48 unsigned
\* bits fails before the counter is touched: no identifier, and the dict is
\* the same after as before.
C18_InvalidTimestampFailsFirst ==
    (result.called /\ result.ts \in InvalidTimestamps) =>
        /\ ~result.ok
        /\ result.error = "OverflowError"
        /\ result.uuid = NoId
        /\ current_series_per_ms = result.before

\* C18's case: UUIDT(2 ** 48) and UUIDT(-1) failed in a process whose dict
\* is full, where a get_series call would have evicted
C18_Witness ==
    /\ result.called
    /\ result.ts \in InvalidTimestamps
    /\ ~result.ok
    /\ DictLen(result.before) = MAX_TRACKED
    /\ ops >= 2

-----------------------------------------------------------------------------
(* SpecParse: UUIDT(uuid_str=...) *)

MaxParses == 1

\* 32 hexadecimal digits
Bodies ==
    {<<"0">> \o Repeat("f", 30) \o <<"1">>,
     <<"a">> \o Repeat("0", 30) \o <<"1">>,
     <<"F">> \o Repeat("f", 30) \o <<"E">>}

\* 8-4-4-4-12
Hyphenate(b) ==
    SubSeq(b, 1, 8) \o <<"-">> \o SubSeq(b, 9, 12) \o <<"-">> \o SubSeq(b, 13, 16)
        \o <<"-">> \o SubSeq(b, 17, 20) \o <<"-">> \o SubSeq(b, 21, Len(b))

Prefixes ==
    {<<>>, <<"u", "r", "n", ":">>, <<"u", "u", "i", "d", ":">>,
     <<"u", "r", "n", ":", "u", "u", "i", "d", ":">>}

Decorated(b, prefix, braces, hyphens) ==
    LET h == IF hyphens THEN Hyphenate(b) ELSE b
    IN  prefix \o (IF braces THEN <<"{">> \o h \o <<"}">> ELSE h)

\* the integer 32 hexadecimal digits stand for, bit by bit
ValueOf(b) ==
    Nat2({k \in 0 .. 127 :
            (HexValue(b[32 - (k \div 4)]) \div (2 ^ (k % 4))) % 2 = 1})

ValidStrings ==
    {[text |-> Decorated(b, prefix, braces, hyphens), value |-> ValueOf(b)] :
        b \in Bodies, prefix \in Prefixes, braces \in BOOLEAN, hyphens \in BOOLEAN}

\* too short, too long, a letter that is no digit, a prefix that is not taken off
InvalidTexts ==
    UNION {{Take(b, 31), b \o <<"0">>, <<"g">> \o Drop(b, 1),
            <<"U", "R", "N", ":">> \o b, Hyphenate(Take(b, 31)),
            <<"{">> \o b \o <<"0", "}">>} : b \in Bodies}
    \cup {<<"a", "b", "c">>}

InvalidStrings == {[text |-> x, value |-> NoId] : x \in InvalidTexts}

\* UUIDT(uuid_str=s) with s a valid identifier
FromValidString ==
    /\ ops < MaxParses
    /\ ops' = ops + 1
    /\ \E uuid_str \in ValidStrings : ConstructFrom(NowKey, uuid_str, ZeroTail)
    /\ UNCHANGED <<raceVars, slugVars, u7, itb, mk>>

\* UUIDT(uuid_str=s) and UUIDT(1700000000000, s) with s no valid identifier
FromInvalidString ==
    /\ ops < MaxParses
    /\ ops' = ops + 1
    /\ \E uuid_str \in InvalidStrings, t \in {NowKey, T_SCENARIO} :
           ConstructFrom(t, uuid_str, ZeroTail)
    /\ UNCHANGED <<raceVars, slugVars, u7, itb, mk>>

\* a fresh process, and processes whose dict is full or holds a counter
\* about to wrap
InitParse ==
    /\ ops = 0
    /\ \E n \in {0, SERIES_MODULUS - 1}, m \in {0, MAX_TRACKED - 1} :
           AfterWarmUp(T_SCENARIO, n, m)
    /\ RaceIdle
    /\ SlugIdle
    /\ u7 = NoU7
    /\ itb = NoItb
    /\ mk = NoMk

NextParse == FromValidString \/ FromInvalidString

SpecParse == InitParse /\ [][NextParse]_vars

\* C11: constructing a UUIDT from a string that is no valid 32-hex-digit value
\* fails: no identifier is returned and the counter dict is left as it was.
C11_InvalidStringFails ==
    (result.called /\ result.uuid_str \in InvalidStrings) =>
        /\ ~result.ok
        /\ result.error = "ValueError"
        /\ result.uuid = NoId
        /\ current_series_per_ms = result.before

\* C12: constructing a UUIDT from a valid string, decorated or not, returns
\* the identifier of the string's value, leaves the counter dict as it was and
\* draws no random bytes.
C12_ValidStringParsed ==
    (result.called /\ result.uuid_str \in ValidStrings) =>
        /\ result.ok
        /\ result.uuid = result.uuid_str.value
        /\ current_series_per_ms = result.before
        /\ ~result.drew

\* C12's case: a string with prefix, braces and hyphens, parsed in a process
\* whose dict is full and holds a counter about to wrap
C12_Witness ==
    /\ result.called
    /\ result.uuid_str \in ValidStrings
    /\ Len(result.uuid_str.text) = 32 + 9 + 2 + 4
    /\ 127 \in result.uuid.bits
    /\ DictLen(current_series_per_ms) = MAX_TRACKED
    /\ \E t \in DOMAIN current_series_per_ms.named :
           current_series_per_ms.named[t] = SERIES_MODULUS - 1

-----------------------------------------------------------------------------
(* SpecRace: threads of one process inside UUIDT.get_series                 *)
(*                                                                         *)
(* get_series takes no lock, so a thread switch may fall between any two   *)
(* of its dict operations: the read of line 82, the len of line 83, the    *)
(* clear and the store of lines 84-85, and the load and the store that     *)
(* each of += (line 86) and %= (line 87) is made of.                       *)

Goto(p, line) == pc' = [pc EXCEPT ![p] = line]

\* get_series(unix_time_ms) is called
Call(p) ==
    /\ pc[p] = "idle"
    /\ Len(returned[p]) < MaxCalls
    /\ \E t \in ValidTimestamps :
           local' = [local EXCEPT ![p] = [NoLocal EXCEPT !.unix_time_ms = t]]
    /\ Goto(p, "l82")
    /\ UNCHANGED <<current_series_per_ms, returned, seqVars>>

\* series = cls.current_series_per_ms[unix_time_ms]
L82(p) ==
    /\ pc[p] = "l82"
    /\ \E d \in {Line82(current_series_per_ms, local[p].unix_time_ms)} :
           /\ current_series_per_ms' = d
           /\ local' = [local EXCEPT ![p].series = d.named[local[p].unix_time_ms]]
    /\ Goto(p, "l83")
    /\ UNCHANGED <<returned, seqVars>>

\* if len(cls.current_series_per_ms) > 10_000: not taken
L83Skip(p) ==
    /\ pc[p] = "l83"
    /\ ~(DictLen(current_series_per_ms) > MAX_TRACKED)
    /\ Goto(p, "l86")
    /\ UNCHANGED <<current_series_per_ms, local, returned, seqVars>>

\* if len(cls.current_series_per_ms) > 10_000: taken
L83Enter(p) ==
    /\ pc[p] = "l83"
    /\ DictLen(current_series_per_ms) > MAX_TRACKED
    /\ Goto(p, "l84")
    /\ UNCHANGED <<current_series_per_ms, local, returned, seqVars>>

\* cls.current_series_per_ms.clear()
L84(p) ==
    /\ pc[p] = "l84"
    /\ current_series_per_ms' = DictClear(current_series_per_ms)
    /\ Goto(p, "l85")
    /\ UNCHANGED <<local, returned, seqVars>>

\* cls.current_series_per_ms[unix_time_ms] = series
L85(p) ==
    /\ pc[p] = "l85"
    /\ current_series_per_ms' =
           DictStore(current_series_per_ms, local[p].unix_time_ms, local[p].series)
    /\ Goto(p, "l86")
    /\ UNCHANGED <<local, returned, seqVars>>

\* the load of cls.current_series_per_ms[unix_time_ms] += 1 and of %= 65_536
Load(p, at, next) ==
    /\ pc[p] = at
    /\ \E d \in {DictRead(current_series_per_ms, local[p].unix_time_ms)} :
           /\ current_series_per_ms' = d
           /\ local' = [local EXCEPT ![p].loaded = d.named[local[p].unix_time_ms]]
    /\ Goto(p, next)
    /\ UNCHANGED <<returned, seqVars>>

L86Load(p) == Load(p, "l86", "l86store")

L86Store(p) ==
    /\ pc[p] = "l86store"
    /\ current_series_per_ms' =
           DictStore(current_series_per_ms, local[p].unix_time_ms, local[p].loaded + 1)
    /\ Goto(p, "l87")
    /\ UNCHANGED <<local, returned, seqVars>>

L87Load(p) == Load(p, "l87", "l87store")

L87Store(p) ==
    /\ pc[p] = "l87store"
    /\ current_series_per_ms' =
           DictStore(current_series_per_ms, local[p].unix_time_ms,
                     local[p].loaded % SERIES_MODULUS)
    /\ Goto(p, "l88")
    /\ UNCHANGED <<local, returned, seqVars>>

\* return series
L88(p) ==
    /\ pc[p] = "l88"
    /\ returned' = [returned EXCEPT ![p] =
                       Append(@, [unix_time_ms |-> local[p].unix_time_ms,
                                  series |-> local[p].series])]
    /\ Goto(p, "idle")
    /\ UNCHANGED <<current_series_per_ms, local, seqVars>>

InitRace ==
    /\ ops = 0
    /\ \E n \in StartMints, m \in StartOthers :
           /\ (IF n > 0 THEN 1 ELSE 0) + m <= MAX_TRACKED
           /\ AfterWarmUp(T_SCENARIO, n, m)
    /\ RaceIdle
    /\ SlugIdle
    /\ u7 = NoU7
    /\ itb = NoItb
    /\ mk = NoMk

NextRace ==
    \/ \E p \in Threads : Call(p)
    \/ \E p \in Threads : L82(p)
    \/ \E p \in Threads : L83Skip(p)
    \/ \E p \in Threads : L83Enter(p)
    \/ \E p \in Threads : L84(p)
    \/ \E p \in Threads : L85(p)
    \/ \E p \in Threads : L86Load(p)
    \/ \E p \in Threads : L86Store(p)
    \/ \E p \in Threads : L87Load(p)
    \/ \E p \in Threads : L87Store(p)
    \/ \E p \in Threads : L88(p)

SpecRace == InitRace /\ [][NextRace]_vars

\* get_series calls for t that have returned, over all threads
Returns(t) ==
    {<<p, i>> \in Threads \X (1 .. MaxCalls) :
        i <= Len(returned[p]) /\ returned[p][i].unix_time_ms = t}

\* C1: concurrent get_series calls for one millisecond never return the same
\* series value, as long as fewer than 65536 identifiers were minted for it.
C1_NoSharedSeries ==
    \A t \in ValidTimestamps :
        minted[t] + Cardinality(Returns(t)) < SERIES_MODULUS =>
            \A x \in Returns(t), y \in Returns(t) :
                (x[1] # y[1]) =>
                    returned[x[1]][x[2]].series # returned[y[1]][y[2]].series

-----------------------------------------------------------------------------
(* Claims about the series of one process *)

\* the 16-bit series an identifier embeds and its 48-bit timestamp prefix
SeriesOf(uuid) == Field(uuid, 79, 64)

PrefixOf(uuid) == Nat2({i - 80 : i \in {j \in uuid.bits : j >= 80}})

TailOf(uuid) == {i \in uuid.bits : i < 64}

LastIsNamed == last.ts \in ValidTimestamps

\* C2: the i-th identifier minted at t since the process started (i counted
\* from 0) carries the series i mod 65536, whatever was minted in between.
C2_IthSinceStart ==
    LastIsNamed => last.series = (minted[last.ts] - 1) % SERIES_MODULUS

\* C2, amended: the i-th identifier minted at t since t's entry was last
\* evicted from the dict (or since the start) carries the series i mod 65536,
\* whatever other timestamps were minted in between.
C2_IthSinceEvicted ==
    LastIsNamed =>
        /\ last.series = (sinceEvicted[last.ts] - 1) % SERIES_MODULUS
        /\ SeriesOf(last.uuid) = last.series

\* C2's case: t was minted, evicted, and minted twice more with another
\* named timestamp and clock timestamps tracked next to it
C2_Witness ==
    /\ ops > 0
    /\ last.ts = T_SCENARIO
    /\ minted[T_SCENARIO] > sinceEvicted[T_SCENARIO]
    /\ sinceEvicted[T_SCENARIO] >= 2
    /\ minted[T_NEXT] >= 1

\* C3: the k-th of a run of consecutive constructions at t that began with no
\* entry for t embeds the series (k - 1) mod 65536 (0 .. k-1 in order up to
\* k = 65536, and 0 again at the 65537th) behind t's 6-byte prefix.
C3_RunFromAbsent ==
    (LastIsNamed /\ last.k >= 1 /\ last.fromAbsent) =>
        /\ last.series = (last.k - 1) % SERIES_MODULUS
        /\ SeriesOf(last.uuid) = (last.k - 1) % SERIES_MODULUS
        /\ PrefixOf(last.uuid) = last.ts
        /\ last.k <= SERIES_MODULUS => last.series = last.k - 1

\* C3's case: the 65537th construction of such a run has just been made
C3_Witness ==
    /\ ops > 0
    /\ LastIsNamed
    /\ last.fromAbsent
    /\ last.k = SERIES_MODULUS + 1
    /\ SeriesOf(last.uuid) = 0

\* C4: of two identifiers minted at timestamps ts_a < ts_b the first has the
\* smaller 128-bit value, whatever their series and tails.
C4_TimeOrdered ==
    \A a \in ValidTimestamps, b \in ValidTimestamps :
        (Less(a, b) /\ lastId[a] # NoId /\ lastId[b] # NoId)
            => Less(lastId[a], lastId[b])

\* C4's case: the earlier identifier has the larger series and the larger tail
C4_Witness ==
    /\ ops >= 2
    /\ lastId[T_SCENARIO] # NoId
    /\ lastId[T_NEXT] # NoId
    /\ SeriesOf(lastId[T_SCENARIO]) = SERIES_MODULUS - 1
    /\ SeriesOf(lastId[T_NEXT]) = 0
    /\ TailOf(lastId[T_SCENARIO]) = 0 .. 63
    /\ TailOf(lastId[T_NEXT]) = {}

-----------------------------------------------------------------------------
(* uuid7 *)

\* uuid.UUID(int=...) accepts 0 <= int < 1 << 128
UUIDFromInt(n) ==
    IF IsNonNeg(n) /\ \A i \in n.bits : i < 128
    THEN [ok |-> TRUE, int |-> n]
    ELSE [ok |-> FALSE, int |-> n]

\* lines 105-114: the timestamp argument resolved to an integer of milliseconds.
\* An ISO string is parsed by datetime and the clock is read by time_ns; both
\* are the environment's, and each hands back the integer carried in `value`.
ResolveTime(unix_ms_time) ==
    CASE unix_ms_time.kind = "str" -> unix_ms_time.value
      [] unix_ms_time.kind = "none" -> unix_ms_time.value
      [] OTHER -> unix_ms_time.value

\* lines 117-129: rand_a and rand_b from the randomness argument
RandA(random) ==
    CASE random.kind = "int" -> BitAnd(random.value, LowMask(12))
      [] random.kind = "generator" -> random.a
      [] OTHER -> BitAnd(random.value, LowMask(12))

\* rand_b masked with fourteen F, 56 ones
RandB56(random) ==
    CASE random.kind = "int" -> BitAnd(ShiftRight(random.value, 12), LowMask(56))
      [] random.kind = "generator" -> random.b
      [] OTHER -> BitAnd(ShiftRight(random.value, 12), LowMask(56))

\* 0x03FFFFFFFFFFFFFFF is 3 followed by fifteen F: 2 + 60 = 62 ones
RandB(random) ==
    CASE random.kind = "int" -> BitAnd(ShiftRight(random.value, 12), LowMask(62))
      [] random.kind = "generator" -> random.b
      [] OTHER -> BitAnd(ShiftRight(random.value, 12), LowMask(62))

\* lines 132-141 without the mask on the timestamp
Uuid7IntUnmasked(unix_ms_time_int, rand_a, rand_b) ==
    LET ver == FromNat(7)
        var == FromNat(2)
        t0 == ShiftLeft(unix_ms_time_int, 80)
        t1 == BitOr(t0, ShiftLeft(ver, 76))
        t2 == BitOr(t1, ShiftLeft(rand_a, 64))
        t3 == BitOr(t2, ShiftLeft(var, 62))
    IN  BitOr(t3, rand_b)

\* lines 132-141
Uuid7Int(unix_ms_time_int, rand_a, rand_b) ==
    LET ver == FromNat(7)
        var == FromNat(2)
        t0 == ShiftLeft(BitAnd(unix_ms_time_int, LowMask(48)), 80)
        t1 == BitOr(t0, ShiftLeft(ver, 76))
        t2 == BitOr(t1, ShiftLeft(rand_a, 64))
        t3 == BitOr(t2, ShiftLeft(var, 62))
    IN  BitOr(t3, rand_b)

uuid7(unix_ms_time, random) ==
    LET unix_ms_time_int == ResolveTime(unix_ms_time)
        rand_a == RandA(random)
        rand_b == RandB(random)
    IN  UUIDFromInt(Uuid7Int(unix_ms_time_int, rand_a, rand_b))

\* the arguments the model calls uuid7 with
SetsOf(positions) == SUBSET positions

TimeBits == {0, 47, 48, 100}

TimeArgs ==
    {[kind |-> k, value |-> [neg |-> n, bits |-> b]] :
        k \in {"str", "int"}, n \in BOOLEAN, b \in SetsOf(TimeBits)}
    \cup {[kind |-> "none", value |-> Nat2(b)] : b \in SetsOf(TimeBits)}

SeedBits == {0, 11, 12, 67, 68, 73, 74, 90}

RandomArgs ==
    {[kind |-> "int", value |-> [neg |-> n, bits |-> b], a |-> Nat2({}), b |-> Nat2({})] :
        n \in BOOLEAN, b \in SetsOf(SeedBits)}
    \cup {[kind |-> "generator", value |-> Nat2({}), a |-> Nat2(x), b |-> Nat2(y)] :
            x \in SetsOf({0, 11}), y \in SetsOf({0, 55})}
    \cup {[kind |-> "none", value |-> Nat2(b), a |-> Nat2({}), b |-> Nat2({})] :
            b \in SetsOf({0, 11, 12, 73, 74, 79})}

\* one call of uuid7 with the arguments drawn at the start
Uuid7Call ==
    /\ ~u7.called
    /\ \E uuid \in {uuid7(u7.unix_ms_time, u7.random)} :
         u7' = [u7 EXCEPT !.called = TRUE, !.uuid = uuid]
    /\ UNCHANGED <<uuidtVars, ops, raceVars, slugVars, itb, mk>>

InitUuid7 ==
    /\ ops = 0
    /\ InitUUIDT
    /\ RaceIdle
    /\ SlugIdle
    /\ \E unix_ms_time \in TimeArgs, random \in RandomArgs :
         u7 = [NoU7 EXCEPT !.unix_ms_time = unix_ms_time, !.random = random]
    /\ itb = NoItb
    /\ mk = NoMk

NextUuid7 == Uuid7Call

SpecUuid7 == InitUuid7 /\ [][NextUuid7]_vars

\* bits hi..lo of an identifier, moved down to 0
BitsOf(x, hi, lo) == {i - lo : i \in {j \in x.bits : lo <= j /\ j <= hi}}

\* the low n bits of an integer: its value modulo 2^n
LowBits(x, n) == IF x.neg THEN (0 .. n - 1) \ x.bits ELSE x.bits \cap (0 .. n - 1)

\* C9: whatever the timestamp and the randomness, uuid7 returns an identifier
\* with bits 79-76 = 0111, bits 63-62 = 10 and bits 127-80 = the timestamp's
\* low 48 bits.
C9_VersionVariantTimestamp ==
    u7.called =>
        /\ u7.uuid.ok
        /\ BitsOf(u7.uuid.int, 79, 76) = {0, 1, 2}
        /\ BitsOf(u7.uuid.int, 63, 62) = {1}
        /\ BitsOf(u7.uuid.int, 127, 80) = LowBits(u7.unix_ms_time.value, 48)

\* C9's case: a negative timestamp wider than 48 bits and an integer seed
\* wider than 74 bits
C9_Witness ==
    /\ u7.called
    /\ u7.unix_ms_time.value.neg
    /\ 100 \in u7.unix_ms_time.value.bits
    /\ u7.random.kind = "int"
    /\ 90 \in u7.random.value.bits

\* C10: with an integer seed, rand_a is the seed's low 12 bits and rand_b, the
\* bits of the result below the variant, is the seed shifted right by 12 and
\* masked to 56 bits.
C10_SeedMaskedTo56 ==
    (u7.called /\ u7.random.kind = "int") =>
        /\ BitsOf(u7.uuid.int, 75, 64) = LowBits(u7.random.value, 12)
        /\ BitsOf(u7.uuid.int, 61, 0) = LowBits(ShiftRight(u7.random.value, 12), 56)

\* C10, amended: ... and rand_b is the seed shifted right by 12 and masked to
\* 62 bits, the seed's bits 73-12.
C10_SeedMaskedTo62 ==
    (u7.called /\ u7.random.kind = "int") =>
        /\ BitsOf(u7.uuid.int, 75, 64) = LowBits(u7.random.value, 12)
        /\ BitsOf(u7.uuid.int, 61, 0) = LowBits(ShiftRight(u7.random.value, 12), 62)

\* C10's case: a seed with bits above its 68th, the part a 56-bit mask drops
C10_Witness ==
    /\ u7.called
    /\ u7.uuid.ok
    /\ u7.random.kind = "int"
    /\ ~u7.random.value.neg
    /\ {68, 73, 74} \subseteq u7.random.value.bits
    /\ {56, 61} \subseteq u7.uuid.int.bits

-----------------------------------------------------------------------------
(* int_to_base (lines 237-247) *)

\* line 26: string.digits + string.ascii_letters
BASE62 ==
    <<"0", "1", "2", "3", "4", "5", "6", "7", "8", "9",
      "a", "b", "c", "d", "e", "f", "g", "h", "i", "j", "k", "l", "m",
      "n", "o", "p", "q", "r", "s", "t", "u", "v", "w", "x", "y", "z",
      "A", "B", "C", "D", "E", "F", "G", "H", "I", "J", "K", "L", "M",
      "N", "O", "P", "Q", "R", "S", "T", "U", "V", "W", "X", "Y", "Z">>

\* value[:n] for any integer n: a negative n counts from the end
Slice(value, n) ==
    IF n >= 0 THEN Take(value, n)
    ELSE IF Len(value) + n > 0 THEN Take(value, Len(value) + n)
    ELSE <<>>

\* lines 245-246 with the symbol put behind the value
TurnAppends(number, alphabet, value) ==
    IF Len(alphabet) = 0
    THEN [raised |-> "ZeroDivisionError", number |-> number, value |-> value]
    ELSE [raised |-> "",
          number |-> number \div Len(alphabet),
          value |-> value \o <<alphabet[(number % Len(alphabet)) + 1]>>]

\* lines 245-246, one turn of the loop, for number > 0
Turn(number, alphabet, value) ==
    IF Len(alphabet) = 0
    THEN [raised |-> "ZeroDivisionError", number |-> number, value |-> value]
    ELSE [raised |-> "",
          number |-> number \div Len(alphabet),
          value |-> <<alphabet[(number % Len(alphabet)) + 1]>> \o value]

\* line 247: value or "0"
ValueOrZero(value) == IF Len(value) = 0 THEN <<"0">> ELSE value

\* The model holds the MaxDigits symbols of value that were written last.  The
\* calls of Numbers and Bases that end write at most 31 (2147483647 in base
\* 2), so their value is held whole.
MaxDigits == 32

Numbers == {0, 1, 2, 61, 62, 63, 3843, 3844, 12345, 2147483647, -1, -12345}

Bases == (2 .. 62) \cup {63, 100, 1, 0, -1, -60, -61, -62, -100}

\* lines 238-243: the check of the base, the alphabet, and the call of itself
\* with -number that a negative number leads to
ItbCall ==
    /\ itb.pc = "call"
    /\ IF itb.base > 62
       THEN itb' = [itb EXCEPT !.pc = "done", !.raised = "ValueError"]
       ELSE IF itb.number < 0
       THEN itb' = [itb EXCEPT !.negated = TRUE, !.number = -itb.number]
       ELSE itb' = [itb EXCEPT !.pc = "test", !.alphabet = Slice(BASE62, itb.base),
                               !.value = <<>>]
    /\ UNCHANGED <<uuidtVars, ops, raceVars, slugVars, u7, mk>>

\* line 244: number != 0, into the body
ItbTest ==
    /\ itb.pc = "test"
    /\ itb.number # 0
    /\ itb' = [itb EXCEPT !.pc = "body"]
    /\ UNCHANGED <<uuidtVars, ops, raceVars, slugVars, u7, mk>>

\* lines 245-246, and back to line 244
ItbBody ==
    /\ itb.pc = "body"
    /\ \E r \in {Turn(itb.number, itb.alphabet, itb.value)} :
         itb' = IF r.raised # ""
                THEN [itb EXCEPT !.pc = "done", !.raised = r.raised]
                ELSE [itb EXCEPT !.pc = "test", !.number = r.number,
                                 !.value = Take(r.value, MaxDigits)]
    /\ UNCHANGED <<uuidtVars, ops, raceVars, slugVars, u7, mk>>

\* lines 244 and 247: number == 0, return (behind "-" in the outer call)
ItbReturn ==
    /\ itb.pc = "test"
    /\ itb.number = 0
    /\ itb' = [itb EXCEPT !.pc = "done",
                          !.returns = (IF itb.negated THEN <<"-">> ELSE <<>>)
                                          \o ValueOrZero(itb.value)]
    /\ UNCHANGED <<uuidtVars, ops, raceVars, slugVars, u7, mk>>

InitIntToBase ==
    /\ ops = 0
    /\ InitUUIDT
    /\ RaceIdle
    /\ SlugIdle
    /\ u7 = NoU7
    /\ mk = NoMk
    /\ \E number \in Numbers, base \in Bases :
         itb = [NoItb EXCEPT !.pc = "call", !.number = number, !.n = number,
                             !.base = base]

NextIntToBase == ItbCall \/ ItbTest \/ ItbBody \/ ItbReturn

\* a call that can take a step takes it: the interpreter does not stop mid-call
SpecIntToBase ==
    InitIntToBase /\ [][NextIntToBase]_vars /\ WF_vars(NextIntToBase)

\* the place of a symbol in the alphabet: digits, then lowercase, then uppercase
IndexOf(ch) == (CHOOSE i \in 1 .. 62 : BASE62[i] = ch) - 1

\* decoding by multiply-accumulate
RECURSIVE Decode(_, _, _)
Decode(value, base, acc) ==
    IF Len(value) = 0 THEN acc
    ELSE Decode(Tail(value), base, acc * base + IndexOf(Head(value)))

\* C13: for n >= 0 and a base in 2..62, decoding int_to_base(n, base) gives n
\* back, and int_to_base(0, base) is "0".
C13_DecodeInvertsEncode ==
    (itb.pc = "done" /\ itb.n >= 0 /\ itb.base \in 2 .. 62) =>
        /\ itb.raised = ""
        /\ Len(itb.returns) > 0
        /\ \A i \in 1 .. Len(itb.returns) :
               \E j \in 1 .. itb.base : BASE62[j] = itb.returns[i]
        /\ Decode(itb.returns, itb.base, 0) = itb.n
        /\ (itb.n = 0 => itb.returns = <<"0">>)

\* C13's case: int_to_base(12345, 62) returned "3d7"
C13_Witness ==
    /\ itb.pc = "done"
    /\ itb.n = 12345
    /\ itb.base = 62
    /\ itb.returns = <<"3", "d", "7">>

\* C19: every call of int_to_base with a base <= 62 ends, by a return or by
\* an error.
C19_Terminates == (itb.base <= 62) => <>(itb.pc = "done")

-----------------------------------------------------------------------------
(* mask_key_value (lines 228-234) *)

\* mask_key_value with len(value) <= 16
mask_key_valueUpTo16(value) ==
    IF Len(value) <= 16 THEN Repeat("*", 8)
    ELSE Take(value, 4) \o <<".", ".", ".">> \o Drop(value, Len(value) - 4)

mask_key_value(value) ==
    IF Len(value) < 16 THEN Repeat("*", 8)
    ELSE Take(value, 4) \o <<".", ".", ".">> \o Drop(value, Len(value) - 4)

\* the longest run of one character in the middle of an argument
MaxFill == 12

\* "phx_abcdEFGH"
SCENARIO_TOKEN == <<"p", "h", "x", "_", "a", "b", "c", "d", "E", "F", "G", "H">>

MaskInputs ==
    {prefix \o Repeat(c, n) \o suffix :
        prefix \in {<<>>, <<"p", "h", "x", "_">>},
        c \in {"x", "*"},
        n \in 0 .. MaxFill,
        suffix \in {<<>>, <<"E", "F", "G", "H">>, <<"v", "w", "x", "y", "z">>}}
    \cup {SCENARIO_TOKEN}

MaskCall ==
    /\ ~mk.called
    /\ mk' = [mk EXCEPT !.called = TRUE, !.masked = mask_key_value(mk.value)]
    /\ UNCHANGED <<uuidtVars, ops, raceVars, slugVars, u7, itb>>

InitMask ==
    /\ ops = 0
    /\ InitUUIDT
    /\ RaceIdle
    /\ SlugIdle
    /\ u7 = NoU7
    /\ itb = NoItb
    /\ \E value \in MaskInputs : mk = [NoMk EXCEPT !.value = value]

NextMask == MaskCall

SpecMask == InitMask /\ [][NextMask]_vars

C15_ScenarioToken ==
    (mk.called /\ mk.value = SCENARIO_TOKEN) =>
        mk.masked = <<"p", "h", "x", "_", ".", ".", ".", "E", "F", "G", "H">>

=============================================================================
